---- MODULE Spec2Model ----
(***************************************************************************)
(* A model of MP3Player (src/mp3_player.py): the playback state kept by    *)
(* the Tk callbacks, the pygame mixer the callbacks command and the       *)
(* pending root.after(500, update_progress) callbacks of the event loop.   *)
(*                                                                         *)
(* Time is counted in whole seconds.  Paths and file names are sequences   *)
(* of one-character strings, so that lower() and endswith(".mp3") are      *)
(* computed rather than assumed.  Every handler is an operator from the    *)
(* object's fields (a record with the source's attribute names) to the     *)
(* fields after the call, so that a handler calling another handler is a   *)
(* composition; one action per callback of the event loop applies it.      *)
(***************************************************************************)
EXTENDS Integers, Sequences, FiniteSets, TLC

VARIABLES
    current_file,        \* self.current_file: a path, or None
    playing,             \* self.playing
    paused,              \* self.paused
    track_length,        \* self.track_length, seconds
    offset,              \* self.offset, seconds
    play_start_time,     \* self.play_start_time: a clock reading, or NoTime
    playlist,            \* self.playlist: sequence of paths
    current_index,       \* self.current_index: 0-based, -1 without playlist
    mixer,               \* pygame.mixer.music: "stopped", "playing", "paused"
    timers,              \* number of pending root.after update_progress callbacks
    progress_var,        \* self.progress_var, percent
    play_button,         \* TRUE when the widget's state is tk.NORMAL
    pause_button,
    stop_button,
    rewind_button,
    fast_forward_button,
    next_button,
    use_mutagen,         \* module global use_mutagen
    now,                 \* time.time()
    last,                \* history: the callback that ran in the step to this state
    failed_advance       \* history: a play_next_song failed and no user command came since

fields == <<current_file, playing, paused, track_length, offset, play_start_time,
            playlist, current_index, mixer, timers, progress_var, play_button,
            pause_button, stop_button, rewind_button, fast_forward_button, next_button>>

vars == <<current_file, playing, paused, track_length, offset, play_start_time,
          playlist, current_index, mixer, timers, progress_var, play_button,
          pause_button, stop_button, rewind_button, fast_forward_button, next_button,
          use_mutagen, now, last, failed_advance>>

\* ---- bounds ----
MaxTime == 2
MaxTimers == 2
WidgetWidth == 2

\* ---- values ----
None == <<>>
NoTime == -1
Durations == {5}

\* ---- the file system the dialogs browse ----
EmptyDir == <<"e">>
MusicDir == <<"m">>
SubDir == <<"m", "/", "s">>
Dirs == {EmptyDir, MusicDir, SubDir}

listdir(folder_path) ==
    IF folder_path = MusicDir
    THEN << <<"a", ".", "m", "p", "3">>, <<"B", ".", "M", "P", "3">>,
            <<"n", ".", "t", "x", "t">>, <<"s">> >>
    ELSE IF folder_path = SubDir
    THEN << <<"c", ".", "m", "p", "3">> >>
    ELSE IF folder_path = EmptyDir
    THEN << <<"n", ".", "t", "x", "t">>, <<"m", "p", "3">> >>
    ELSE <<>>

join(folder_path, file) == folder_path \o <<"/">> \o file

\* str.lower(), on the characters the file system uses
lower_char(c) ==
    CASE c = "B" -> "b"
      [] c = "M" -> "m"
      [] c = "P" -> "p"
      [] OTHER -> c

lower(str) == [i \in 1..Len(str) |-> lower_char(str[i])]

endswith(str, suffix) ==
    /\ Len(str) >= Len(suffix)
    /\ SubSeq(str, Len(str) - Len(suffix) + 1, Len(str)) = suffix

\* is_mp3 with the lower() call forgotten
is_mp3_case_sensitive(str) == endswith(str, <<".", "m", "p", "3">>)

is_mp3(str) == endswith(lower(str), <<".", "m", "p", "3">>)

\* the loop of load_folder that collects the .mp3 entries of one directory
RECURSIVE scan_folder(_, _)
scan_folder(folder_path, entries) ==
    IF entries = <<>> THEN <<>>
    ELSE LET file == Head(entries)
             rest == scan_folder(folder_path, Tail(entries))
         IN IF is_mp3(file) THEN <<join(folder_path, file)>> \o rest ELSE rest

\* random.shuffle: every ordering of the list
Shuffles(list) ==
    LET n == Len(list)
        perms == {p \in [1..n -> 1..n] : \A i, j \in 1..n : i # j => p[i] # p[j]}
    IN {[i \in 1..n |-> list[p[i]]] : p \in perms}

\* what the file dialog of load_file can return ("" when cancelled)
FileChoices == {None, join(MusicDir, <<"a", ".", "m", "p", "3">>),
                join(MusicDir, <<"n", ".", "t", "x", "t">>)}

\* what the directory dialog of load_folder can return ("" when cancelled)
FolderChoices == {None} \cup Dirs

\* how pygame.mixer.music.load and the duration probe end for one file
Outcomes ==
    {[res |-> "LoadError", len |-> 0]}
    \cup (IF use_mutagen THEN {[res |-> "ProbeError", len |-> 0]}
                         ELSE {[res |-> "ok", len |-> 0]})
    \cup {[res |-> "ok", len |-> d] : d \in Durations}

\* the outcome handed to a handler on a path that reaches no load
NoLoad == [res |-> "ok", len |-> 0]

Min(a, b) == IF a < b THEN a ELSE b

\* the object's fields as one record
Self ==
    [current_file |-> current_file, playing |-> playing, paused |-> paused,
     track_length |-> track_length, offset |-> offset,
     play_start_time |-> play_start_time, playlist |-> playlist,
     current_index |-> current_index, mixer |-> mixer, timers |-> timers,
     progress_var |-> progress_var, play_button |-> play_button,
     pause_button |-> pause_button, stop_button |-> stop_button,
     rewind_button |-> rewind_button, fast_forward_button |-> fast_forward_button,
     next_button |-> next_button]

Assign(s) ==
    /\ current_file' = s.current_file
    /\ playing' = s.playing
    /\ paused' = s.paused
    /\ track_length' = s.track_length
    /\ offset' = s.offset
    /\ play_start_time' = s.play_start_time
    /\ playlist' = s.playlist
    /\ current_index' = s.current_index
    /\ mixer' = s.mixer
    /\ timers' = s.timers
    /\ progress_var' = s.progress_var
    /\ play_button' = s.play_button
    /\ pause_button' = s.pause_button
    /\ stop_button' = s.stop_button
    /\ rewind_button' = s.rewind_button
    /\ fast_forward_button' = s.fast_forward_button
    /\ next_button' = s.next_button

\* pygame.mixer.music.get_busy(); the only caller also tests "not paused"
get_busy(s) == s.mixer = "playing"

\* pygame.mixer.music.pause() / unpause()
mixer_pause(m) == IF m = "playing" THEN "paused" ELSE m
mixer_unpause(m) == IF m = "paused" THEN "playing" ELSE m

\* ---- the handlers, as functions of the object's fields ----

\* stop_music with the reset of offset forgotten
stop_music_keeps_offset(s) ==
    IF s.playing
    THEN [s EXCEPT !.mixer = "stopped", !.playing = FALSE, !.paused = FALSE,
                   !.play_start_time = NoTime,
                   !.play_button = TRUE, !.pause_button = FALSE,
                   !.stop_button = FALSE, !.rewind_button = FALSE,
                   !.fast_forward_button = FALSE, !.next_button = FALSE,
                   !.progress_var = 0]
    ELSE s

stop_music(s) ==
    IF s.playing
    THEN [s EXCEPT !.mixer = "stopped", !.playing = FALSE, !.paused = FALSE,
                   !.offset = 0, !.play_start_time = NoTime,
                   !.play_button = TRUE, !.pause_button = FALSE,
                   !.stop_button = FALSE, !.rewind_button = FALSE,
                   !.fast_forward_button = FALSE, !.next_button = FALSE,
                   !.progress_var = 0]
    ELSE s

\* the fields after the body of the try block of play_next_song / play_music has
\* started playback from the beginning
started(s) ==
    [s EXCEPT !.mixer = "playing", !.offset = 0, !.play_start_time = now,
              !.playing = TRUE, !.paused = FALSE,
              !.play_button = FALSE, !.pause_button = TRUE, !.stop_button = TRUE,
              !.rewind_button = TRUE, !.fast_forward_button = TRUE]

\* offset + (time.time() - play_start_time), or offset while paused
elapsed(s) ==
    IF s.paused THEN s.offset ELSE s.offset + (now - s.play_start_time)

\* the elapsed computation raises TypeError when the clock is None
clock_missing(s) == ~s.paused /\ s.play_start_time = NoTime

RECURSIVE update_progress(_, _)
RECURSIVE play_next_song(_, _)

\* update_progress with the "not self.paused" test of the completion check forgotten
update_progress_ignores_pause(s, o) ==
    IF s.playing /\ s.track_length > 0
    THEN IF clock_missing(s) THEN s
         ELSE LET current_time == Min(elapsed(s), s.track_length)
                  progress == (current_time * 100) \div s.track_length
                  s1 == [s EXCEPT !.progress_var = Min(progress, 100)]
              IN IF s.current_file = None
                 THEN s1
                 ELSE IF ~get_busy(s1)
                      THEN IF s1.playlist # <<>>
                           THEN play_next_song(s1, o)
                           ELSE [stop_music(s1) EXCEPT !.progress_var = 100]
                      ELSE [s1 EXCEPT !.timers = @ + 1]
    ELSE s

\* update_progress that leaves the bar at 0 after the automatic stop
update_progress_no_full_bar(s, o) ==
    IF s.playing /\ s.track_length > 0
    THEN IF clock_missing(s) THEN s
         ELSE LET current_time == Min(elapsed(s), s.track_length)
                  progress == (current_time * 100) \div s.track_length
                  s1 == [s EXCEPT !.progress_var = Min(progress, 100)]
              IN IF s.current_file = None
                 THEN s1
                 ELSE IF ~get_busy(s1) /\ ~s1.paused
                      THEN IF s1.playlist # <<>>
                           THEN play_next_song(s1, o)
                           ELSE stop_music(s1)
                      ELSE [s1 EXCEPT !.timers = @ + 1]
    ELSE s

\* o is how the engine's next load ends, should this call reach one
update_progress(s, o) ==
    IF s.playing /\ s.track_length > 0
    THEN IF clock_missing(s) THEN s
         ELSE LET current_time == Min(elapsed(s), s.track_length)
                  progress == (current_time * 100) \div s.track_length
                  s1 == [s EXCEPT !.progress_var = Min(progress, 100)]
              IN IF s.current_file = None
                 THEN s1                  \* os.path.basename(None) raises
                 ELSE IF ~get_busy(s1) /\ ~s1.paused
                      THEN IF s1.playlist # <<>>
                           THEN play_next_song(s1, o)
                           ELSE [stop_music(s1) EXCEPT !.progress_var = 100]
                      ELSE [s1 EXCEPT !.timers = @ + 1]
    ELSE s

\* play_next_song that stays on the last entry instead of wrapping around
play_next_song_no_wrap(s, o) ==
    IF s.playlist # <<>>
    THEN LET idx == IF s.current_index + 1 >= Len(s.playlist)
                    THEN s.current_index ELSE s.current_index + 1
             s1 == [s EXCEPT !.current_index = idx,
                             !.current_file = s.playlist[idx + 1]]
         IN IF o.res = "LoadError" THEN s1
            ELSE IF o.res = "ProbeError" THEN [s1 EXCEPT !.mixer = "stopped"]
            ELSE update_progress(
                    [started([s1 EXCEPT !.track_length = o.len])
                        EXCEPT !.next_button = TRUE], o)
    ELSE s

play_next_song(s, o) ==
    IF s.playlist # <<>>
    THEN LET idx == (s.current_index + 1) % Len(s.playlist)
             s1 == [s EXCEPT !.current_index = idx,
                             !.current_file = s.playlist[idx + 1]]
         IN IF o.res = "LoadError" THEN s1
            ELSE IF o.res = "ProbeError" THEN [s1 EXCEPT !.mixer = "stopped"]
            ELSE update_progress(
                    [started([s1 EXCEPT !.track_length = o.len])
                        EXCEPT !.next_button = TRUE], o)
    ELSE s

\* play_music with the reset of offset forgotten
play_music_keeps_offset(s, o) ==
    IF s.current_file # None
    THEN update_progress(
            [started(s) EXCEPT !.offset = s.offset,
                               !.next_button =
                                   IF s.playlist # <<>> THEN TRUE ELSE @], o)
    ELSE s

play_music(s, o) ==
    IF s.current_file # None
    THEN update_progress(
            [started(s) EXCEPT !.next_button =
                                   IF s.playlist # <<>> THEN TRUE ELSE @], o)
    ELSE s

\* toggle_pause that leaves the segment clock set on pause
toggle_pause_keeps_clock(s) ==
    IF s.playing
    THEN IF ~s.paused
         THEN [s EXCEPT !.mixer = mixer_pause(@),
                        !.offset = IF s.play_start_time # NoTime
                                   THEN @ + (now - s.play_start_time) ELSE @,
                        !.paused = TRUE]
         ELSE [s EXCEPT !.mixer = mixer_unpause(@),
                        !.play_start_time = now,
                        !.paused = FALSE]
    ELSE s

\* toggle_pause with the elapsed time of the segment not committed on pause
toggle_pause_drops_segment(s) ==
    IF s.playing
    THEN IF ~s.paused
         THEN [s EXCEPT !.mixer = mixer_pause(@),
                        !.play_start_time = NoTime,
                        !.paused = TRUE]
         ELSE [s EXCEPT !.mixer = mixer_unpause(@),
                        !.play_start_time = now,
                        !.paused = FALSE]
    ELSE s

toggle_pause(s) ==
    IF s.playing
    THEN IF ~s.paused
         THEN [s EXCEPT !.mixer = mixer_pause(@),
                        !.offset = IF s.play_start_time # NoTime
                                   THEN @ + (now - s.play_start_time) ELSE @,
                        !.play_start_time = NoTime,
                        !.paused = TRUE]
         ELSE [s EXCEPT !.mixer = mixer_unpause(@),
                        !.play_start_time = now,
                        !.paused = FALSE]
    ELSE s

\* the clamp of seek sending a position past the end to the start of the track
clamp_past_end_to_start(new_time, length) ==
    IF new_time < 0 THEN 0
    ELSE IF new_time > length THEN 0
    ELSE new_time

\* the clamp of seek
clamp(new_time, length) ==
    IF new_time < 0 THEN 0
    ELSE IF new_time > length THEN length - 1
    ELSE new_time

\* seek with the re-pause of the engine forgotten
seek_forgets_pause(s, delta) ==
    IF s.playing /\ s.track_length > 0
    THEN IF clock_missing(s) THEN s
         ELSE LET new_time == clamp(elapsed(s) + delta, s.track_length)
              IN IF ~s.paused
                 THEN [s EXCEPT !.mixer = "playing", !.offset = new_time,
                                !.play_start_time = now]
                 ELSE [s EXCEPT !.mixer = "playing",
                                !.offset = new_time,
                                !.play_start_time = NoTime]
    ELSE s

seek(s, delta) ==
    IF s.playing /\ s.track_length > 0
    THEN IF clock_missing(s) THEN s
         ELSE LET new_time == clamp(elapsed(s) + delta, s.track_length)
              IN IF ~s.paused
                 THEN [s EXCEPT !.mixer = "playing", !.offset = new_time,
                                !.play_start_time = now]
                 ELSE [s EXCEPT !.mixer = mixer_pause("playing"),
                                !.offset = new_time,
                                !.play_start_time = NoTime]
    ELSE s

\* x is event.x, a pixel of the progress bar; fraction * track_length in whole seconds
jump_to_position(s, x) ==
    IF s.playing /\ s.track_length > 0
    THEN IF clock_missing(s) THEN s
         ELSE LET new_time == (x * s.track_length) \div WidgetWidth
                  delta == new_time - elapsed(s)
              IN seek(s, delta)
    ELSE s

rewind_music(s) == seek(s, -5)

fast_forward_music(s) == seek(s, 5)

\* load_file with the reset of current_index forgotten
load_file_keeps_index(s, file_path, o) ==
    IF file_path # None
    THEN LET s1 == [s EXCEPT !.playlist = <<>>, !.current_file = file_path]
         IN IF is_mp3(file_path)
            THEN IF o.res = "LoadError"
                 THEN [s1 EXCEPT !.current_file = None]
                 ELSE LET s2 == [s1 EXCEPT !.mixer = "stopped",
                                           !.play_button = TRUE,
                                           !.next_button = FALSE]
                      IN IF o.res = "ProbeError"
                         THEN [s2 EXCEPT !.current_file = None]
                         ELSE [s2 EXCEPT !.track_length = o.len]
            ELSE s1
    ELSE s

load_file(s, file_path, o) ==
    IF file_path # None
    THEN LET s1 == [s EXCEPT !.playlist = <<>>, !.current_index = -1,
                             !.current_file = file_path]
         IN IF is_mp3(file_path)
            THEN IF o.res = "LoadError"
                 THEN [s1 EXCEPT !.current_file = None]
                 ELSE LET s2 == [s1 EXCEPT !.mixer = "stopped",
                                           !.play_button = TRUE,
                                           !.next_button = FALSE]
                      IN IF o.res = "ProbeError"
                         THEN [s2 EXCEPT !.current_file = None]
                         ELSE [s2 EXCEPT !.track_length = o.len]
            ELSE s1
    ELSE s

\* load_folder with the playlist assigned before the scanned list is tested
load_folder_assigns_first(s, folder_path, shuffled, o) ==
    IF folder_path # None
    THEN LET s0 == IF s.playing THEN stop_music(s) ELSE s
             mp3_files == scan_folder(folder_path, listdir(folder_path))
             s1 == [s0 EXCEPT !.playlist = shuffled,
                              !.current_index = 0,
                              !.current_file = IF shuffled # <<>> THEN shuffled[1]
                                               ELSE None]
         IN IF mp3_files = <<>> THEN s1
            ELSE IF o.res = "LoadError"
                 THEN [s1 EXCEPT !.current_file = None]
                 ELSE LET s2 == [s1 EXCEPT !.mixer = "stopped",
                                           !.play_button = TRUE,
                                           !.next_button = TRUE]
                      IN IF o.res = "ProbeError"
                         THEN [s2 EXCEPT !.current_file = None]
                         ELSE play_music([s2 EXCEPT !.track_length = o.len], o)
    ELSE s

\* shuffled is what random.shuffle makes of the scanned list
load_folder(s, folder_path, shuffled, o) ==
    IF folder_path # None
    THEN LET s0 == IF s.playing THEN stop_music(s) ELSE s
             mp3_files == scan_folder(folder_path, listdir(folder_path))
         IN IF mp3_files = <<>> THEN s0
            ELSE LET s1 == [s0 EXCEPT !.playlist = shuffled,
                                      !.current_index = 0,
                                      !.current_file = shuffled[1]]
                 IN IF o.res = "LoadError"
                    THEN [s1 EXCEPT !.current_file = None]
                    ELSE LET s2 == [s1 EXCEPT !.mixer = "stopped",
                                              !.play_button = TRUE,
                                              !.next_button = TRUE]
                         IN IF o.res = "ProbeError"
                            THEN [s2 EXCEPT !.current_file = None]
                            ELSE play_music([s2 EXCEPT !.track_length = o.len], o)
    ELSE s

\* ---- history ----

StateOf(s) == IF ~s.playing THEN "Stopped"
              ELSE IF s.paused THEN "Paused" ELSE "Playing"

\* last describes the step that led to the current state: the callback that ran,
\* who ran it, what the dialog returned (None without dialog), how it ended (for
\* a load, how the engine's load ended), the state it started from and whether
\* the offset was non-zero then; Idle when no callback ran in that step
Idle == [op |-> "none", by |-> "none", arg |-> None, res |-> "ok",
         was |-> "Stopped", off |-> FALSE]

Ran(op, by, arg, res) ==
    [op |-> op, by |-> by, arg |-> arg, res |-> res,
     was |-> StateOf(Self), off |-> offset # 0]

\* whether play_next_song(s, o) ends in its except branch
advance_fails(s, o) == s.playlist # <<>> /\ o.res # "ok"

\* whether update_progress(s, o) calls play_next_song
advances(s) ==
    /\ s.playing /\ s.track_length > 0 /\ ~clock_missing(s)
    /\ s.current_file # None
    /\ ~get_busy(s) /\ ~s.paused /\ s.playlist # <<>>

\* ---- the event loop ----

Init ==
    /\ current_file = None
    /\ playing = FALSE
    /\ paused = FALSE
    /\ track_length = 0
    /\ offset = 0
    /\ play_start_time = NoTime
    /\ playlist = <<>>
    /\ current_index = -1
    /\ mixer = "stopped"
    /\ timers = 0
    /\ progress_var = 0
    /\ play_button = FALSE
    /\ pause_button = FALSE
    /\ stop_button = FALSE
    /\ rewind_button = FALSE
    /\ fast_forward_button = FALSE
    /\ next_button = FALSE
    /\ use_mutagen \in BOOLEAN
    /\ now = 0
    /\ last = Idle
    /\ failed_advance = FALSE

\* "Load File" button; O is the set of ways the engine's load can end
LoadFile(O) ==
    \E file_path \in FileChoices :
        \E o \in (IF is_mp3(file_path) THEN O ELSE {NoLoad}) :
            /\ Assign(load_file(Self, file_path, o))
            /\ last' = Ran("load_file", "user", file_path,
                           IF file_path = None THEN "cancelled"
                           ELSE IF ~is_mp3(file_path) THEN "UnsupportedFormat"
                           ELSE o.res)
            /\ failed_advance' = FALSE
            /\ UNCHANGED <<use_mutagen, now>>

\* "Load Folder" button
LoadFolder(O) ==
    \E folder_path \in FolderChoices :
        \E shuffled \in Shuffles(scan_folder(folder_path, listdir(folder_path))) :
            \E o \in (IF shuffled = <<>> THEN {NoLoad} ELSE O) :
                /\ timers < MaxTimers
                /\ Assign(load_folder(Self, folder_path, shuffled, o))
                /\ last' = Ran("load_folder", "user", folder_path,
                               IF folder_path = None THEN "cancelled"
                               ELSE IF shuffled = <<>> THEN "EmptyDirectory"
                               ELSE o.res)
                /\ failed_advance' = FALSE
                /\ UNCHANGED <<use_mutagen, now>>

\* "Play" button
PlayMusic ==
    /\ play_button
    /\ timers < MaxTimers
    /\ Assign(play_music(Self, NoLoad))
    /\ last' = Ran("play_music", "user", None,
                   IF current_file = None THEN "NoTrackLoaded" ELSE "ok")
    /\ failed_advance' = FALSE
    /\ UNCHANGED <<use_mutagen, now>>

\* "Pause" / "Resume" button
TogglePause ==
    /\ pause_button
    /\ Assign(toggle_pause(Self))
    /\ last' = Ran("toggle_pause", "user", None, "ok")
    /\ failed_advance' = FALSE
    /\ UNCHANGED <<use_mutagen, now>>

\* "Stop" button
StopMusic ==
    /\ stop_button
    /\ Assign(stop_music(Self))
    /\ last' = Ran("stop_music", "user", None, "ok")
    /\ failed_advance' = FALSE
    /\ UNCHANGED <<use_mutagen, now>>

\* "Rewind (5s)" button
RewindMusic ==
    /\ rewind_button
    /\ Assign(rewind_music(Self))
    /\ last' = Ran("rewind_music", "user", None, "ok")
    /\ failed_advance' = FALSE
    /\ UNCHANGED <<use_mutagen, now>>

\* "Fast Forward (5s)" button
FastForwardMusic ==
    /\ fast_forward_button
    /\ Assign(fast_forward_music(Self))
    /\ last' = Ran("fast_forward_music", "user", None, "ok")
    /\ failed_advance' = FALSE
    /\ UNCHANGED <<use_mutagen, now>>

\* click on the progress bar
JumpToPosition ==
    \E x \in 0..(WidgetWidth - 1) :
        /\ Assign(jump_to_position(Self, x))
        /\ last' = Ran("jump_to_position", "user", None, "ok")
        /\ failed_advance' = FALSE
        /\ UNCHANGED <<use_mutagen, now>>

\* "Next" button
PlayNextSong(O) ==
    /\ next_button
    /\ timers < MaxTimers
    /\ \E o \in (IF playlist # <<>> THEN O ELSE {NoLoad}) :
        /\ Assign(play_next_song(Self, o))
        /\ last' = Ran("play_next_song", "user", None,
                       IF playlist # <<>> THEN o.res ELSE "NoPlaylist")
        /\ failed_advance' = advance_fails(Self, o)
    /\ UNCHANGED <<use_mutagen, now>>

\* a pending root.after(500, self.update_progress) callback runs
UpdateProgress(O) ==
    /\ timers > 0
    /\ LET s == [Self EXCEPT !.timers = @ - 1]
       IN \E o \in (IF advances(s) THEN O ELSE {NoLoad}) :
           /\ Assign(update_progress(s, o))
           /\ last' = IF advances(s)
                      THEN Ran("play_next_song", "timer", None, o.res)
                      ELSE Ran("update_progress", "timer", None, "ok")
           /\ failed_advance' = IF advances(s) THEN advance_fails(s, o)
                                ELSE failed_advance
    /\ UNCHANGED <<use_mutagen, now>>

\* the engine reaches the end of the audio it is playing
EngineFinished ==
    /\ mixer = "playing"
    /\ mixer' = "stopped"
    /\ last' = Idle
    /\ UNCHANGED <<current_file, playing, paused, track_length, offset,
                   play_start_time, playlist, current_index, timers, progress_var,
                   play_button, pause_button, stop_button, rewind_button,
                   fast_forward_button, next_button, use_mutagen, now,
                   failed_advance>>

\* a second of wall-clock time passes
TimePasses ==
    /\ now < MaxTime
    /\ now' = now + 1
    /\ last' = Idle
    /\ UNCHANGED <<fields, use_mutagen, failed_advance>>

Next ==
    \/ LoadFile(Outcomes)
    \/ LoadFolder(Outcomes)
    \/ PlayMusic
    \/ TogglePause
    \/ StopMusic
    \/ RewindMusic
    \/ FastForwardMusic
    \/ JumpToPosition
    \/ PlayNextSong(Outcomes)
    \/ UpdateProgress(Outcomes)
    \/ EngineFinished
    \/ TimePasses

Spec == Init /\ [][Next]_vars

\* the loads of a run in which every track is loadable
OkOutcomes == {o \in Outcomes : o.res = "ok"}

\* Playing a playlist while the engine reports that it is no longer busy
EngineDone == playing /\ ~paused /\ playlist # <<>> /\ mixer = "stopped"

\* The runs in which every track loads, the user leaves the player alone from
\* the moment the engine is done with a playlist track, and a pending
\* root.after callback is eventually run by the Tk main loop.
LiveNext ==
    \/ ~EngineDone /\ LoadFile(OkOutcomes)
    \/ ~EngineDone /\ LoadFolder(OkOutcomes)
    \/ ~EngineDone /\ PlayMusic
    \/ ~EngineDone /\ TogglePause
    \/ ~EngineDone /\ StopMusic
    \/ ~EngineDone /\ RewindMusic
    \/ ~EngineDone /\ FastForwardMusic
    \/ ~EngineDone /\ JumpToPosition
    \/ ~EngineDone /\ PlayNextSong(OkOutcomes)
    \/ UpdateProgress(OkOutcomes)
    \/ EngineFinished
    \/ TimePasses

LiveSpec == Init /\ [][LiveNext]_vars /\ WF_vars(UpdateProgress(OkOutcomes))

TypeOK ==
    /\ playing \in BOOLEAN /\ paused \in BOOLEAN
    /\ track_length \in Nat
    /\ offset \in Int
    /\ play_start_time \in {NoTime} \cup 0..MaxTime
    /\ current_index \in -1..2
    /\ mixer \in {"stopped", "playing", "paused"}
    /\ timers \in 0..(MaxTimers + 1)
    /\ progress_var \in 0..100

\* ---- claims ----

\* C1: in every reachable state, if the state is Playing or Paused (playing is
\* true) then a current track is loaded (current_file is not None).
C1_PlayingHasTrack == playing => current_file # None

\* C2: immediately after a successful load_file issued while Playing or Paused,
\* the playing and paused flags are false and offset is 0 (the state is Stopped).
C2_LoadFileStops ==
    (last.op = "load_file" /\ last.res = "ok" /\ last.was \in {"Playing", "Paused"})
        => (~playing /\ ~paused /\ offset = 0)

\* a step in which load_folder found no .mp3 file in the chosen directory
EmptyDirectoryStep == last'.op = "load_folder" /\ last'.res = "EmptyDirectory"

\* C3 as stated: load_folder on a directory without .mp3 file leaves playing,
\* paused, offset, play_start_time, current_file, track_length, playlist and
\* current_index as they were, from any prior state.
C3_EmptyDirectoryUntouched ==
    [][EmptyDirectoryStep =>
          UNCHANGED <<playing, paused, offset, play_start_time, current_file,
                      track_length, playlist, current_index>>]_vars

\* C3 as amended: load_folder on a directory without .mp3 file leaves
\* current_file, track_length, playlist and current_index as they were; it stops
\* playback first, so from Playing or Paused it ends Stopped with offset 0 and no
\* segment clock, and from Stopped the playback fields keep their values too.
C3_EmptyDirectoryStopsOnly ==
    [][EmptyDirectoryStep =>
          /\ UNCHANGED <<current_file, track_length, playlist, current_index>>
          /\ IF playing
             THEN ~playing' /\ ~paused' /\ offset' = 0 /\ play_start_time' = NoTime
             ELSE UNCHANGED <<playing, paused, offset, play_start_time>>]_vars

\* load_folder found the chosen directory empty while a playlist was Playing
C3_Witness ==
    /\ last.op = "load_folder" /\ last.res = "EmptyDirectory"
    /\ last.was = "Playing" /\ last.arg = EmptyDir
    /\ ~playing /\ playlist # <<>> /\ current_file # None

\* C4: load_file with a path whose extension is not .mp3 leaves current_file,
\* playlist, current_index, track_length and the playback flags unchanged.
C4_UnsupportedFormatUnchanged ==
    [][(last'.op = "load_file" /\ last'.res = "UnsupportedFormat") =>
          UNCHANGED <<current_file, playlist, current_index, track_length,
                      playing, paused>>]_vars

\* C5: after any seek that takes effect (playing, duration > 0) the position
\* stored in offset satisfies 0 <= offset < duration.
C5_SeekWithinTrack ==
    (/\ last.op \in {"rewind_music", "fast_forward_music", "jump_to_position"}
     /\ last.was # "Stopped" /\ track_length > 0)
        => (0 <= offset /\ offset < track_length)

\* C6: whenever the state is Playing with a non-empty playlist and the engine
\* reports that it has finished the track, the periodic tick eventually advances
\* to the next playlist entry and the player is Playing it, whatever the
\* track's duration (checked under LiveSpec).
C6_AutoAdvance ==
    \A i \in {0, 1} :
        (EngineDone /\ current_index = i)
            ~> (/\ last.op = "play_next_song" /\ last.by = "timer"
                /\ playing /\ ~paused /\ mixer = "playing"
                /\ current_index = (i + 1) % Len(playlist))

\* C7: after a failed play_next_song no later tick calls play_next_song again
\* until the user issues a new command.
C7_NoRetryAfterFailedAdvance ==
    [][failed_advance => ~(last'.op = "play_next_song" /\ last'.by = "timer")]_vars

\* C8: after every LoadError, in load_file, load_folder and play_next_song
\* alike, current_file is None.
C8_LoadErrorClearsTrack ==
    (/\ last.op \in {"load_file", "load_folder", "play_next_song"}
     /\ last.res = "LoadError")
        => current_file = None

\* C9: in every reachable state, if the state is Stopped (playing false) then
\* offset is 0.
C9_StoppedOffsetZero == ~playing => offset = 0

\* playback was stopped at a non-zero offset
C9_Witness == last.op = "stop_music" /\ last.off /\ ~playing

\* the .mp3 files directly in each directory of the file system, written out
Mp3FilesOf(folder_path) ==
    IF folder_path = MusicDir
    THEN {<<"m", "/", "a", ".", "m", "p", "3">>, <<"m", "/", "B", ".", "M", "P", "3">>}
    ELSE IF folder_path = SubDir
    THEN {<<"m", "/", "s", "/", "c", ".", "m", "p", "3">>}
    ELSE {}

\* C10: a successful load_folder replaces the playlist with a permutation of
\* exactly the .mp3 files of the directory, sets current_index to 0 with
\* current_file = playlist[0], and ends Playing with offset 0; a successful
\* load_file never starts playback by itself.
C10_FolderStartsFileDoesNot ==
    /\ (last.op = "load_folder" /\ last.res = "ok") =>
          /\ {playlist[i] : i \in 1..Len(playlist)} = Mp3FilesOf(last.arg)
          /\ Len(playlist) = Cardinality(Mp3FilesOf(last.arg))
          /\ Len(playlist) >= 1
          /\ current_index = 0
          /\ current_file = playlist[1]
          /\ playing /\ ~paused /\ mixer = "playing"
          /\ offset = 0
    /\ (last.op = "load_file" /\ last.res = "ok") =>
          /\ mixer # "playing"
          /\ last.was = "Stopped" => ~playing

\* a folder with two .mp3 files, one of them in upper case, was loaded
C10_Witness ==
    /\ last.op = "load_folder" /\ last.res = "ok" /\ last.arg = MusicDir
    /\ Len(playlist) = 2 /\ playing

\* C11: play_music with a loaded current track, from Stopped, Playing or Paused,
\* ends Playing with offset 0 and the segment clock started now (elapsed 0);
\* with no current track it changes no state.
C11_PlayRestartsFromZero ==
    [][last'.op = "play_music" =>
          IF current_file # None
          THEN /\ playing' /\ ~paused' /\ offset' = 0
               /\ play_start_time' = now
               /\ elapsed([offset |-> offset', paused |-> paused',
                           play_start_time |-> play_start_time']) = 0
               /\ mixer' = "playing"
          ELSE UNCHANGED fields]_vars

\* Play was pressed while Paused at a non-zero offset
C11_Witness ==
    /\ last.op = "play_music" /\ last.res = "ok"
    /\ last.was = "Paused" /\ last.off
    /\ playing /\ offset = 0

\* C12: toggle_pause twice in a row from Playing, with no time passing between
\* the calls, returns to Playing with the elapsed time it had at the first
\* call; the resume does not change offset; toggle_pause while Stopped changes
\* nothing.
C12_PauseResumeKeepsElapsed ==
    /\ (playing /\ ~paused /\ ~clock_missing(Self)) =>
          LET p == toggle_pause(Self)
              r == toggle_pause(p)
          IN /\ StateOf(p) = "Paused"
             /\ p.offset = elapsed(Self)
             /\ StateOf(r) = "Playing"
             /\ r.offset = p.offset
             /\ elapsed(r) = elapsed(Self)
    /\ ~playing => toggle_pause(Self) = Self
    /\ (last.op = "toggle_pause" /\ last.was = "Paused") =>
          (playing /\ ~paused /\ play_start_time = now)

\* playback was resumed at a non-zero offset
C12_Witness ==
    /\ last.op = "toggle_pause" /\ last.was = "Paused" /\ last.off
    /\ playing /\ ~paused /\ offset > 0

\* n consecutive calls of play_next_song, the i-th load ending as os[i]
RECURSIVE Advances(_, _, _)
Advances(s, os, n) ==
    IF n = 0 THEN s ELSE play_next_song(Advances(s, os, n - 1), os[n])

\* C13: play_next_song on a non-empty playlist of length N at index i sets
\* current_index to (i+1) mod N, and N consecutive advances return to the start
\* index, from Playing, Paused and Stopped and whether or not each load succeeds.
C13_AdvanceWrapsAround ==
    /\ playlist # <<>> =>
          LET N == Len(playlist)
          IN /\ \A o \in Outcomes :
                  play_next_song(Self, o).current_index = (current_index + 1) % N
             /\ \A os \in [1..N -> Outcomes] :
                  Advances(Self, os, N).current_index = current_index
    /\ (last.op = "play_next_song" /\ last.res # "NoPlaylist") =>
          /\ playlist # <<>>
          /\ current_index \in 0..(Len(playlist) - 1)
          /\ current_file = playlist[current_index + 1]

\* Next wrapped from the last entry of a two-entry playlist to the first, with
\* a load that failed
C13_Witness ==
    /\ last.op = "play_next_song" /\ last.by = "user" /\ last.res = "LoadError"
    /\ Len(playlist) = 2 /\ current_index = 0

\* C14: a tick never triggers auto-advance or auto-stop while the state is
\* Paused or Stopped, whatever the engine's busy flag reports.
C14_CompletionOnlyWhilePlaying ==
    [][(last'.by = "timer" /\ (~playing \/ paused)) =>
          /\ last'.op = "update_progress"
          /\ UNCHANGED <<playing, paused, current_index, current_file, offset,
                         play_start_time, mixer, track_length>>]_vars

\* a tick ran while Paused with a playlist, the engine reporting not busy
C14_Witness ==
    /\ last.op = "update_progress" /\ last.by = "timer" /\ last.was = "Paused"
    /\ playing /\ paused /\ playlist # <<>> /\ track_length > 0
    /\ current_file # None /\ mixer # "playing"

\* C15: with no playlist and a track of known positive duration, when the
\* engine is no longer busy while the state is Playing, the next tick moves
\* the model to Stopped with the progress at 100%, and the progress stays at
\* 100% until the next user command.
C15_SingleFileCompletion ==
    [][/\ (/\ last'.by = "timer"
           /\ playing /\ ~paused /\ playlist = <<>> /\ current_file # None
           /\ track_length > 0 /\ mixer # "playing")
          => (~playing' /\ ~paused' /\ offset' = 0 /\ progress_var' = 100)
       /\ (~playing /\ progress_var = 100 /\ last'.by # "user")
          => (~playing' /\ progress_var' = 100)]_vars

\* a tick found the single track finished and stopped at 100%
C15_Witness ==
    /\ last.op = "update_progress" /\ last.by = "timer" /\ last.was = "Playing"
    /\ playlist = <<>> /\ current_file # None /\ track_length > 0
    /\ ~playing /\ progress_var = 100

\* a step that ran seek on a playing or paused track of known duration
SeekStep ==
    /\ last'.op \in {"rewind_music", "fast_forward_music", "jump_to_position"}
    /\ playing /\ track_length > 0

\* C16: a seek issued while Playing leaves the state Playing with the segment
\* clock restarted at now; a seek issued while Paused leaves the state Paused
\* with no segment clock and the engine paused again.
C16_SeekKeepsPlayPause ==
    [][SeekStep =>
          /\ playing' /\ paused' = paused
          /\ IF paused
             THEN play_start_time' = NoTime /\ mixer' = "paused"
             ELSE play_start_time' = now /\ mixer' = "playing"]_vars

\* a seek ran while Paused
C16_Witness ==
    /\ last.op \in {"rewind_music", "fast_forward_music", "jump_to_position"}
    /\ last.was = "Paused" /\ track_length > 0
    /\ playing /\ paused /\ mixer = "paused" /\ play_start_time = NoTime

\* C17: seek and jump_to_position are no-ops when no track is loaded, when the
\* duration is unknown (track_length <= 0) or when the state is Stopped: no
\* engine command is issued and offset, play_start_time, playing and paused are
\* unchanged.
C17_SeekNoOp ==
    [][(/\ last'.op \in {"rewind_music", "fast_forward_music", "jump_to_position"}
        /\ (current_file = None \/ track_length <= 0 \/ ~playing))
          => UNCHANGED <<offset, play_start_time, playing, paused, mixer>>]_vars

\* C18: in every reachable state at most one update_progress callback is
\* pending in the event loop.
C18_SingleTick == timers <= 1

\* C19: play_start_time is not None if and only if playing is true and paused
\* is false; in particular paused implies playing.
C19_ClockIffRunning ==
    /\ (play_start_time # NoTime) <=> (playing /\ ~paused)
    /\ paused => playing
    /\ playing => ~clock_missing(Self)

\* a seek while Paused left the player Paused without segment clock
C19_Witness ==
    /\ last.op = "fast_forward_music" /\ last.was = "Paused"
    /\ playing /\ paused /\ play_start_time = NoTime /\ offset > 0

\* C20: the playlist is empty exactly when current_index = -1, otherwise
\* 0 <= current_index < len(playlist), and whenever the playlist is non-empty
\* and current_file is not None, current_file = playlist[current_index].
C20_PlaylistIndexAgree ==
    /\ (playlist = <<>>) <=> (current_index = -1)
    /\ playlist # <<>> =>
          /\ 0 <= current_index /\ current_index < Len(playlist)
          /\ current_file # None => current_file = playlist[current_index + 1]

\* a single file was loaded during playback, leaving no playlist
C20_Witness ==
    /\ last.op = "load_file" /\ last.res = "ok"
    /\ playlist = <<>> /\ current_index = -1 /\ current_file # None
    /\ next_button = FALSE /\ last.was = "Playing"

\* C21: whenever the state is Playing or Paused the Play button is disabled,
\* and the Pause, Stop, Rewind and Fast Forward buttons are enabled exactly
\* when the state is Playing or Paused.
C21_ButtonsFollowState ==
    /\ playing => ~play_button
    /\ pause_button <=> playing
    /\ stop_button <=> playing
    /\ rewind_button <=> playing
    /\ fast_forward_button <=> playing

\* the deltas seek is tried with: the two buttons' 5 seconds and all in between
SeekDeltas == (-5)..5

\* the elapsed time as the player shows it: never past the end of the track
shown_elapsed(s) == Min(elapsed(s), s.track_length)

Max(a, b) == IF a > b THEN a ELSE b

\* C22 as stated: for every delta >= 0 and every elapsed position reachable
\* while Playing or Paused with a known duration, the position after
\* seek(delta) is greater than or equal to the elapsed position before it, and
\* for delta <= 0 it is less than or equal.
C22_SeekNeverOvershootsBack ==
    (playing /\ track_length > 0) =>
        \A delta \in SeekDeltas :
            /\ delta >= 0 => seek(Self, delta).offset >= shown_elapsed(Self)
            /\ delta <= 0 => seek(Self, delta).offset <= elapsed(Self)

\* C22 as amended: for delta >= 0 the position after seek(delta) is at least
\* the smaller of the elapsed position and duration - 1 (the clamp puts a seek
\* past the end one second before it), and for delta <= 0 it is at most the
\* larger of the elapsed position and 0.
C22_SeekDirectionUpToClamp ==
    (playing /\ track_length > 0) =>
        \A delta \in SeekDeltas :
            /\ delta >= 0 =>
                  seek(Self, delta).offset >= Min(elapsed(Self), track_length - 1)
            /\ delta <= 0 =>
                  seek(Self, delta).offset <= Max(elapsed(Self), 0)

\* Fast Forward ran on a track of known duration and was clamped to one second
\* before its end
C22_Witness ==
    /\ last.op = "fast_forward_music" /\ last.was = "Playing"
    /\ track_length > 0 /\ offset = track_length - 1

====
